---- MODULE Spec2Model ----
(***************************************************************************)
(* BernieFM playlist service (bernie-radio-stream/app.py): the songs and   *)
(* playlist tables of data/radio.db and the HTTP handlers that read and    *)
(* write them; and the player process (bernie-radio-stream/streamer.py)    *)
(* that streams the songs to Icecast through ffmpeg.                       *)
(*                                                                         *)
(* A row of a table is identified by its integer primary key.  SQLite      *)
(* gives a row inserted into an empty table the key 1 and every further    *)
(* row the largest key plus one, so a table of n rows filled in one batch  *)
(* is the sequence of its rows and the key of a row is its index.          *)
(***************************************************************************)
EXTENDS Integers, Sequences, FiniteSets, TLC

\* max_retries of wait_for_api.
MaxRetries == 12
\* range(5) of get_all_songs.
PollRounds == 5
\* Largest catalog the player process is run on (StreamSpec).
MaxTracks == 2
\* Largest catalog the player process is run on under LiveStreamSpec.
MaxLiveTracks == 1
\* Largest catalog (length of audio_files) explored.
MaxSongs == 3
\* Cap on play_order: queue_specific_song can raise it without limit. A
\* play-next that would set a play_order above the cap is not taken.
MaxOrder == MaxSongs - 1
\* .limit(5) of get_current_playlist.
UpcomingLimit == 5
\* Largest catalog of the playlist views computed under SpecView.
MaxViewSongs == 7
\* Number of concurrent HTTP clients under ConcSpec.
NumClients == 2
\* Number of requests the concurrent clients send in all.
MaxRequests == 3

VARIABLES
    audio_files,  \* the source list of get_song_data_from_source
    songs,        \* table songs: songs[id] is the row's file_path
    playlist,     \* table playlist: playlist[id] is the row with that key
    started,      \* the startup handler has run at least once
    last,         \* history: the last request, the rows it found, its response
    round,        \* a client alternating GET /playlist and POST /next_song
    req,          \* the requests in flight, one per concurrent client
    batch,        \* history: the requests begun since no request was in flight
    streamer      \* the player process (streamer.py)

vars == <<audio_files, songs, playlist, started, last, round, req, batch,
          streamer>>

\* What the handlers of one request at a time leave alone.
clients == <<round, req, batch, streamer>>

\* datetime.utcnow(): no handler reads a played_at back, so one value stands
\* for every time.
UtcNow == "utcnow"

\* One URL of audio_files; the URLs of the list are pairwise different.
Url(i) == <<"mp3", i>>

AudioFiles(n) == [i \in 1..n |-> Url(i)]

\* A PlaylistEntry row. played_at is <<>> for NULL and <<t>> for time t.
Entry(song_id, play_order) ==
    [song_id |-> song_id, play_order |-> play_order,
     played_at |-> <<>>, is_playing |-> FALSE]

Ids(pl) == DOMAIN pl

\* filter(PlaylistEntry.is_playing == True)
Playing(pl) == {i \in Ids(pl) : pl[i].is_playing}

\* filter(PlaylistEntry.play_order == n)
AtOrder(pl, n) == {i \in Ids(pl) : pl[i].play_order = n}

\* The query for the target without its filter.
WithSongAny(pl, s) == Ids(pl)

\* filter(PlaylistEntry.song_id == s)
WithSong(pl, s) == {i \in Ids(pl) : pl[i].song_id = s}

\* Query.first() over the rows S: None (0) when there is none, otherwise one
\* of them; SQL leaves open which when the query has no ORDER BY.
First(S) == IF S = {} THEN {0} ELSE S

\* order_by(PlaylistEntry.play_order) over the rows S, as a sequence of keys
\* (rows of equal play_order in key order, the order of SQLite's scan).
RECURSIVE OrderBy(_, _)
OrderBy(pl, S) ==
    IF S = {} THEN <<>>
    ELSE LET m == CHOOSE i \in S : \A j \in S :
                     \/ pl[i].play_order < pl[j].play_order
                     \/ pl[i].play_order = pl[j].play_order /\ i <= j
         IN <<m>> \o OrderBy(pl, S \ {m})

\* .limit(n)
Limit(s, n) == SubSeq(s, 1, IF Len(s) < n THEN Len(s) ELSE n)

\* generate_new_playlist without "playlist_entries[0].is_playing = True".
ShuffledNoMarker(p) == [i \in 1..Len(p) |-> Entry(p[i], i - 1)]

\* The entries generate_new_playlist inserts when random.shuffle leaves the
\* song ids in the order p: entry i has play_order i - 1, the first is current.
Shuffled(p) ==
    [i \in 1..Len(p) |-> [Entry(p[i], i - 1) EXCEPT !.is_playing = (i = 1)]]

\* generate_new_playlist numbering the entries from 1 (enumerate(song_ids, 1)).
GenerateFromOne(sg) ==
    { [i \in 1..Len(sg) |->
          [Entry(p[i], i) EXCEPT !.is_playing = (i = 1)]] :
      p \in Permutations(1..Len(sg)) }

\* generate_new_playlist shuffling song_ids[:-1]: the last song is left out.
GenerateWithoutLast(sg) ==
    { Shuffled([i \in 1..(Len(sg) - 1) |-> p[i]]) :
      p \in Permutations(1..(Len(sg) - 1)) }

\* generate_new_playlist: the tables it can leave behind, one per outcome of
\* random.shuffle. The old rows are all deleted, so the new keys are 1..n.
GenerateNewPlaylist(sg) ==
    { Shuffled([i \in 1..Len(sg) |-> p[i]]) : p \in Permutations(1..Len(sg)) }

\* A response built from the entry's own key instead of its song_id.
SongOfKey(sg, pl, i) == [id |-> i, file_path |-> sg[i]]

\* SongResponse.from_orm(entry.song)
SongOf(sg, pl, i) == [id |-> pl[i].song_id, file_path |-> sg[pl[i].song_id]]

NoSong == [id |-> 0, file_path |-> <<>>]

\* GET /songs: db.query(Song).all()
AllSongs(sg) == [i \in 1..Len(sg) |-> [id |-> i, file_path |-> sg[i]]]

\* What a request leaves in last: the endpoint, its path argument, the HTTP
\* status, the number of generate_new_playlist calls made, the keys of the
\* rows its queries found (0: None), the response (song, body), and what
\* became of the handler's "supervisorctl restart streamer" ("none": not run).
Response(op, arg, status, regens, found, song, body) ==
    [op |-> op, arg |-> arg, status |-> status, regens |-> regens,
     found |-> found, song |-> song, body |-> body, signal |-> "none"]

\* The rows a handler found: current_playing, then next_song_entry or
\* target_song_entry, then entry_at_next_spot.
Found(cur, entry, spot) == [cur |-> cur, entry |-> entry, spot |-> spot]

NoRequest == [op |-> "none", arg |-> 0, status |-> 0, regens |-> 0,
              found |-> Found(0, 0, 0), song |-> NoSong, body |-> <<>>,
              signal |-> "none"]

Clients == 1..NumClients

\* A client with no request in flight. History: during, the first query of
\* its GET request ran while another request was between the DELETE and the
\* commit of generate_new_playlist.
Idle == [op |-> "idle", pc |-> "idle", arg |-> 0,
         cur |-> 0, entry |-> 0, spot |-> 0, sess |-> <<>>, during |-> FALSE]

\* total: the requests begun in all; n: those begun since no request was in
\* flight (3: more than two), advances: all of them POST /next_song, start:
\* the playlist table when the first of them began.
NoBatch == [total |-> 0, n |-> 0, advances |-> FALSE, start |-> <<>>]

NoRound == [phase |-> "observe", seen |-> <<>>, txt |-> <<>>, full |-> TRUE]

\* The player process before supervisor has started it. all_songs is the
\* list of get_all_songs, valid the indexes of it whose URL passed
\* validate_song_url, left those of them the for loop has not reached,
\* playing the index and on_air the song given to ffmpeg, polls the rounds of
\* the fallback's range(5) done, exit the return code and marker ffmpeg has
\* just ended with (<<>>: the loop has gone on since), running the number of
\* ffmpeg processes started and not yet ended (2: two or more). History:
\* advances, the POST /next_song calls made since ffmpeg was last started
\* (-1: it has not been started yet, 2: two or more); none is made while it
\* runs.
NotRunning ==
    [pc |-> "off", retries |-> 0, all_songs |-> <<>>, polls |-> 0,
     valid |-> {}, left |-> {}, playing |-> 0, on_air |-> NoSong,
     exit |-> <<>>, running |-> 0, advances |-> -1]

\* A fresh data/radio.db, before the first startup.
Init ==
    /\ audio_files \in {AudioFiles(n) : n \in 0..MaxSongs}
    /\ songs = <<>>
    /\ playlist = <<>>
    /\ started = FALSE
    /\ last = NoRequest
    /\ round = NoRound
    /\ req = [r \in Clients |-> Idle]
    /\ batch = NoBatch
    /\ streamer = NotRunning

\* on_startup calling generate_new_playlist without the check of
\* db.query(PlaylistEntry).count().
OnStartupAlwaysGenerate ==
    LET sg == IF Len(songs) = 0 THEN audio_files ELSE songs
    IN /\ songs' = sg
       /\ started' = TRUE
       /\ \E np \in GenerateNewPlaylist(sg) :
            /\ playlist' = np
            /\ last' = Response("startup", 0, 200, 1, Found(0, 0, 0),
                                NoSong, <<>>)
       /\ UNCHANGED audio_files

\* on_startup: fill songs when it is empty, generate when playlist is empty.
OnStartup ==
    LET sg == IF Len(songs) = 0 THEN audio_files ELSE songs
    IN /\ songs' = sg
       /\ started' = TRUE
       /\ IF Len(playlist) = 0
          THEN \E np \in GenerateNewPlaylist(sg) :
                  /\ playlist' = np
                  /\ last' = Response("startup", 0, 200, 1, Found(0, 0, 0),
                                      NoSong, <<>>)
          ELSE /\ playlist' = playlist
               /\ last' = Response("startup", 0, 200, 0, Found(0, 0, 0),
                                   NoSong, <<>>)
       /\ UNCHANGED audio_files

\* advance_to_next_song without "next_song_entry.is_playing = True".
AdvanceRowsNoMark(pl, cur, nxt) ==
    IF cur # 0
    THEN [pl EXCEPT ![cur].is_playing = FALSE, ![cur].played_at = <<UtcNow>>]
    ELSE pl

\* advance_to_next_song without "current_playing.is_playing = False".
AdvanceRowsKeepFlag(pl, cur, nxt) ==
    LET stamped == IF cur # 0
                   THEN [pl EXCEPT ![cur].played_at = <<UtcNow>>]
                   ELSE pl
    IN [stamped EXCEPT ![nxt].is_playing = TRUE]

\* The rows advance_to_next_song writes when the current row is cur (0: none)
\* and the row found at the next order is nxt.
AdvanceRows(pl, cur, nxt) ==
    LET cleared == IF cur # 0
                   THEN [pl EXCEPT ![cur].is_playing = FALSE,
                                   ![cur].played_at = <<UtcNow>>]
                   ELSE pl
    IN [cleared EXCEPT ![nxt].is_playing = TRUE]

\* next_order without the "+ 1".
NextOrderSame(pl, cur) == IF cur # 0 THEN pl[cur].play_order ELSE 0

\* next_order of advance_to_next_song
NextOrder(pl, cur) == IF cur # 0 THEN pl[cur].play_order + 1 ELSE 0

\* POST /next_song. When no row is at the next order the pending change of
\* the current row is lost with the row: generate_new_playlist deletes it.
AdvanceToNextSong ==
    /\ started
    /\ \E cur \in First(Playing(playlist)) :
         \E nxt \in First(AtOrder(playlist, NextOrder(playlist, cur))) :
           IF nxt # 0
           THEN /\ playlist' = AdvanceRows(playlist, cur, nxt)
                /\ last' = Response("next_song", 0, 200, 0, Found(cur, nxt, 0),
                                    SongOf(songs, playlist, nxt), <<>>)
           ELSE \E np \in GenerateNewPlaylist(songs) :
                  \E n0 \in First(AtOrder(np, 0)) :
                    IF n0 = 0
                    THEN /\ playlist' = np
                         /\ last' = Response("next_song", 0, 404, 1,
                                             Found(cur, 0, 0), NoSong, <<>>)
                    ELSE /\ playlist' = AdvanceRows(np, 0, n0)
                         /\ last' = Response("next_song", 0, 200, 1,
                                             Found(cur, n0, 0),
                                             SongOf(songs, np, n0), <<>>)
    /\ UNCHANGED <<audio_files, songs, started>>

\* subprocess.run(["supervisorctl", "restart", "streamer"], check=True):
\* the command succeeds ("sent") or raises ("failed": no supervisorctl, no
\* supervisor, non-zero exit); skip_song catches every exception.
RestartOutcomes == {"sent", "failed"}

\* skip_song regenerating only when no entry is current.
SkipSongWhenIdle ==
    /\ started
    /\ \E np \in (IF Playing(playlist) = {}
                  THEN GenerateNewPlaylist(songs) ELSE {playlist}) :
         \E n0 \in First(AtOrder(np, 0)) :
           /\ playlist' = np
           /\ IF n0 = 0
              THEN last' = Response("skip", 0, 404, 1, Found(0, 0, 0),
                                    NoSong, <<>>)
              ELSE \E sig \in RestartOutcomes :
                     last' = [Response("skip", 0, 200,
                                       IF Playing(playlist) = {} THEN 1 ELSE 0,
                                       Found(0, n0, 0),
                                       SongOf(songs, np, n0), <<>>)
                                EXCEPT !.signal = sig]
    /\ UNCHANGED <<audio_files, songs, started>>

\* POST /skip
SkipSong ==
    /\ started
    /\ \E np \in GenerateNewPlaylist(songs) :
         \E n0 \in First(AtOrder(np, 0)) :
           /\ playlist' = np
           /\ IF n0 = 0
              THEN last' = Response("skip", 0, 404, 1, Found(0, 0, 0),
                                    NoSong, <<>>)
              ELSE \E sig \in RestartOutcomes :
                     last' = [Response("skip", 0, 200, 1, Found(0, n0, 0),
                                       SongOf(songs, np, n0), <<>>)
                                EXCEPT !.signal = sig]
    /\ UNCHANGED <<audio_files, songs, started>>

\* queue_specific_song without moving the entry at the next spot.
QueueRowsNoSwap(pl, cur, tgt, spot) ==
    [pl EXCEPT ![tgt].play_order = pl[cur].play_order + 1]

\* queue_specific_song giving the entry at the next spot current_order
\* instead of the target's play_order.
QueueRowsToCurrent(pl, cur, tgt, spot) ==
    LET next_order == pl[cur].play_order + 1
        moved == IF spot # 0
                 THEN [pl EXCEPT ![spot].play_order = pl[cur].play_order]
                 ELSE pl
    IN [moved EXCEPT ![tgt].play_order = next_order]

\* The rows queue_specific_song writes: the row at the next order (spot, 0:
\* none) takes the target's order, then the target takes the next order.
QueueRows(pl, cur, tgt, spot) ==
    LET next_order == pl[cur].play_order + 1
        moved == IF spot # 0
                 THEN [pl EXCEPT ![spot].play_order = pl[tgt].play_order]
                 ELSE pl
    IN [moved EXCEPT ![tgt].play_order = next_order]

\* POST /play-next/{song_id}
QueueSpecificSong(song_id) ==
    /\ started
    /\ \E cur \in First(Playing(playlist)) :
         IF cur = 0
         THEN /\ playlist' = playlist
              /\ last' = Response("play_next", song_id, 404, 0,
                                  Found(0, 0, 0), NoSong, <<>>)
         ELSE \E tgt \in First(WithSong(playlist, song_id)) :
                IF tgt = 0
                THEN /\ playlist' = playlist
                     /\ last' = Response("play_next", song_id, 404, 0,
                                         Found(cur, 0, 0), NoSong, <<>>)
                ELSE /\ playlist[cur].play_order + 1 <= MaxOrder
                     /\ \E spot \in First(AtOrder(playlist,
                                            playlist[cur].play_order + 1)) :
                          /\ playlist' = QueueRows(playlist, cur, tgt, spot)
                          /\ last' = Response("play_next", song_id, 200, 0,
                                         Found(cur, tgt, spot),
                                         SongOf(songs, playlist, tgt), <<>>)
    /\ UNCHANGED <<audio_files, songs, started>>

\* get_current_playlist wrapping with .limit(5) instead of remaining_limit.
UpcomingEntriesFullWrap(pl, cur) ==
    LET upcoming == Limit(OrderBy(pl, {i \in Ids(pl) :
                              pl[i].play_order > pl[cur].play_order}),
                          UpcomingLimit)
    IN IF Len(upcoming) < UpcomingLimit
       THEN upcoming \o Limit(OrderBy(pl, Ids(pl)), UpcomingLimit)
       ELSE upcoming

\* upcoming_entries of get_current_playlist, as keys: the rows after the
\* current one, and the wrap-around from the start when they are too few.
UpcomingEntries(pl, cur) ==
    LET upcoming == Limit(OrderBy(pl, {i \in Ids(pl) :
                              pl[i].play_order > pl[cur].play_order}),
                          UpcomingLimit)
    IN IF Len(upcoming) < UpcomingLimit
       THEN upcoming \o Limit(OrderBy(pl, Ids(pl)),
                              UpcomingLimit - Len(upcoming))
       ELSE upcoming

\* [entry.song for entry in upcoming_entries]
UpcomingSongs(sg, pl, cur) ==
    LET e == UpcomingEntries(pl, cur)
    IN [k \in 1..Len(e) |-> SongOf(sg, pl, e[k])]

\* GET /playlist
GetCurrentPlaylist ==
    /\ started
    /\ \E cur \in First(Playing(playlist)) :
         IF cur # 0
         THEN /\ playlist' = playlist
              /\ last' = Response("playlist", 0, 200, 0, Found(cur, 0, 0),
                                  SongOf(songs, playlist, cur),
                                  UpcomingSongs(songs, playlist, cur))
         ELSE \E np \in GenerateNewPlaylist(songs) :
                \E c2 \in First(Playing(np)) :
                  /\ playlist' = np
                  /\ last' = IF c2 = 0
                             THEN Response("playlist", 0, 404, 1,
                                           Found(0, 0, 0), NoSong, <<>>)
                             ELSE Response("playlist", 0, 200, 1,
                                           Found(c2, 0, 0),
                                           SongOf(songs, np, c2),
                                           UpcomingSongs(songs, np, c2))
    /\ UNCHANGED <<audio_files, songs, started>>

\* song_urls of get_playlist_text
SongUrls(sg, pl) ==
    LET e == OrderBy(pl, Ids(pl))
    IN [k \in 1..Len(e) |-> sg[pl[e[k]].song_id]]

\* get_playlist_text regenerating when no entry is current, as
\* get_current_playlist does.
GetPlaylistTextNoCurrent ==
    /\ started
    /\ IF Playing(playlist) # {}
       THEN /\ playlist' = playlist
            /\ last' = Response("playlist_txt", 0, 200, 0, Found(0, 0, 0),
                                NoSong, SongUrls(songs, playlist))
       ELSE \E np \in GenerateNewPlaylist(songs) :
              /\ playlist' = np
              /\ last' = Response("playlist_txt", 0, 200, 1, Found(0, 0, 0),
                                  NoSong, SongUrls(songs, np))
    /\ UNCHANGED <<audio_files, songs, started>>

\* GET /playlist.txt
GetPlaylistText ==
    /\ started
    /\ IF Len(playlist) # 0
       THEN /\ playlist' = playlist
            /\ last' = Response("playlist_txt", 0, 200, 0, Found(0, 0, 0),
                                NoSong, SongUrls(songs, playlist))
       ELSE \E np \in GenerateNewPlaylist(songs) :
              /\ playlist' = np
              /\ last' = Response("playlist_txt", 0, 200, 1, Found(0, 0, 0),
                                  NoSong, SongUrls(songs, np))
    /\ UNCHANGED <<audio_files, songs, started>>

\* GET /songs
GetAllSongsList ==
    /\ started
    /\ last' = Response("songs", 0, 200, 0, Found(0, 0, 0), NoSong,
                        AllSongs(songs))
    /\ UNCHANGED <<audio_files, songs, playlist, started>>

\* GET /health
HealthCheck ==
    /\ started
    /\ last' = Response("health", 0, 200, 0, Found(0, 0, 0), NoSong, <<>>)
    /\ UNCHANGED <<audio_files, songs, playlist, started>>

Next ==
    \/ OnStartup /\ UNCHANGED clients
    \/ AdvanceToNextSong /\ UNCHANGED clients
    \/ SkipSong /\ UNCHANGED clients
    \/ \E song_id \in 1..(MaxSongs + 1) :
         QueueSpecificSong(song_id) /\ UNCHANGED clients
    \/ GetCurrentPlaylist /\ UNCHANGED clients
    \/ GetPlaylistText /\ UNCHANGED clients

Spec == Init /\ [][Next]_vars

-----------------------------------------------------------------------------
(* GET /playlist as a function of the table: SpecView starts in the states *)
(* a catalog of up to MaxViewSongs tracks is in after a startup whose      *)
(* shuffle left the songs in a rotated order and k advances, and applies   *)
(* the handler.                                                            *)

\* The song ids 1..n rotated by r.
Rotation(n, r) == [i \in 1..n |-> ((i - 1 + r) % n) + 1]

\* The table after k advances that found a next entry.
RECURSIVE Advanced(_, _)
Advanced(pl, k) ==
    IF k = 0 THEN pl
    ELSE LET cur == CHOOSE i \in Playing(pl) : TRUE
             nxt == CHOOSE i \in AtOrder(pl, NextOrder(pl, cur)) : TRUE
         IN Advanced(AdvanceRows(pl, cur, nxt), k - 1)

InitView ==
    \E n \in 0..MaxViewSongs :
      \E r \in 0..(IF n = 0 THEN 0 ELSE n - 1), k \in 0..(IF n = 0 THEN 0 ELSE n - 1) :
        /\ audio_files = AudioFiles(n)
        /\ songs = AudioFiles(n)
        /\ playlist = Advanced(Shuffled(Rotation(n, r)), k)
        /\ started = TRUE
        /\ last = NoRequest
        /\ round = NoRound
        /\ req = [c \in Clients |-> Idle]
        /\ batch = NoBatch
        /\ streamer = NotRunning

NextView == GetCurrentPlaylist /\ UNCHANGED clients

SpecView == InitView /\ [][NextView]_vars

-----------------------------------------------------------------------------
(* A client that reads GET /playlist and calls POST /next_song in turn,    *)
(* and reads GET /playlist.txt at any time. round.seen is the file_path of *)
(* every now_playing it got since the last generation, round.txt the first *)
(* /playlist.txt body it got since then, round.full whether every          *)
(* generation it saw end had been read to its last entry.                  *)

RoundStart ==
    /\ ~started
    /\ OnStartup
    /\ round' = NoRound
    /\ UNCHANGED <<req, batch, streamer>>

RoundObserve ==
    /\ round.phase = "observe"
    /\ GetCurrentPlaylist
    /\ round' = [round EXCEPT
                   !.phase = "advance",
                   !.seen = IF last'.status = 200
                            THEN Append(@, last'.song.file_path) ELSE @]
    /\ UNCHANGED <<req, batch, streamer>>

RoundAdvance ==
    /\ round.phase = "advance"
    /\ AdvanceToNextSong
    /\ round' = IF last'.regens = 0
                THEN [round EXCEPT !.phase = "observe"]
                ELSE [NoRound EXCEPT
                        !.full = round.full /\ Len(round.seen) = Len(songs)]
    /\ UNCHANGED <<req, batch, streamer>>

RoundText ==
    /\ GetPlaylistText
    /\ round' = [round EXCEPT !.txt = IF @ = <<>> THEN last'.body ELSE @]
    /\ UNCHANGED <<req, batch, streamer>>

NextRound == RoundStart \/ RoundObserve \/ RoundAdvance \/ RoundText

SpecRound == Init /\ [][NextRound]_vars

-----------------------------------------------------------------------------
(* The handlers on a playlist that has entries and no current one.  Served *)
(* one at a time the requests never leave such a table; overlapping ones   *)
(* do: POST /next_song reads the current entry (key 1) while a second POST *)
(* /next_song commits, reads its next entry, a POST /skip regenerates, and *)
(* the first request's commit then clears is_playing of the new row 1 and  *)
(* stamps its played_at (ConcSpec reaches that table).  SpecLost starts    *)
(* there, and in the empty table of an empty catalog, and serves every     *)
(* endpoint but POST /skip one request at a time.                          *)

\* A generated table after the stale commit of the advance.
MarkerLost(pl) ==
    IF Len(pl) = 0 THEN pl
    ELSE [pl EXCEPT ![1].is_playing = FALSE, ![1].played_at = <<UtcNow>>]

InitLost ==
    \E n \in 0..MaxSongs :
      \E np \in GenerateNewPlaylist(AudioFiles(n)) :
        /\ audio_files = AudioFiles(n)
        /\ songs = AudioFiles(n)
        /\ playlist = MarkerLost(np)
        /\ started = TRUE
        /\ last = NoRequest
        /\ round = NoRound
        /\ req = [c \in Clients |-> Idle]
        /\ batch = NoBatch
        /\ streamer = NotRunning

NextLost ==
    \/ GetCurrentPlaylist /\ UNCHANGED clients
    \/ GetPlaylistText /\ UNCHANGED clients
    \/ GetAllSongsList /\ UNCHANGED clients
    \/ HealthCheck /\ UNCHANGED clients
    \/ AdvanceToNextSong /\ UNCHANGED clients
    \/ \E song_id \in 1..(MaxSongs + 1) :
         QueueSpecificSong(song_id) /\ UNCHANGED clients

SpecLost == InitLost /\ [][NextLost]_vars

-----------------------------------------------------------------------------
(* Concurrent requests (ConcSpec).  Each request has its own Session       *)
(* (get_db) on its own SQLite connection.  A SELECT outside a transaction  *)
(* reads the committed table.  autoflush is off, so what a handler assigns *)
(* stays in its Session until db.commit(), which writes, for every loaded  *)
(* object, the attributes whose value differs from the loaded one, by      *)
(* primary key, in one transaction.  generate_new_playlist is one          *)
(* transaction too: its bulk DELETE opens it and takes SQLite's write      *)
(* lock, its db.commit() ends it.  SQLite admits one write transaction at  *)
(* a time (a second writer waits for the lock) and shows the other         *)
(* connections the committed table until the commit.  So each read and     *)
(* each commit is one step, and a generation is two: the DELETE, then the  *)
(* inserts with the commit.  playlist is the committed table.              *)

\* The Session after a query returned row i (0: None): a row already in the
\* identity map keeps the attributes it was loaded with.
Load(sess, i) ==
    IF i = 0 \/ i \in DOMAIN sess THEN sess ELSE sess @@ (i :> playlist[i])

\* db.commit(): the UPDATEs of the unit of work. now holds the objects'
\* attributes, stamped the keys whose played_at was assigned a new time.
Flush(db, loaded, now, stamped) ==
    [i \in Ids(db) |->
       IF i \notin DOMAIN loaded THEN db[i]
       ELSE [song_id |-> db[i].song_id,
             play_order |-> IF now[i].play_order # loaded[i].play_order
                            THEN now[i].play_order ELSE db[i].play_order,
             played_at |-> IF i \in stamped
                           THEN now[i].played_at ELSE db[i].played_at,
             is_playing |-> IF now[i].is_playing # loaded[i].is_playing
                            THEN now[i].is_playing ELSE db[i].is_playing]]

AllIdle == \A r \in Clients : req[r].pc = "idle"

\* A client sends a request; the handler has not yet run a query.
Begin(r, op, arg) ==
    /\ started
    /\ req[r].pc = "idle"
    /\ req' = [req EXCEPT ![r] =
                 [Idle EXCEPT !.op = op, !.arg = arg,
                              !.pc = IF op = "skip" THEN "generate"
                                     ELSE IF op = "playlist_txt" THEN "entries"
                                     ELSE "current"]]
    /\ batch.total < MaxRequests
    /\ batch' = IF AllIdle
                THEN [total |-> batch.total + 1, n |-> 1,
                      advances |-> op = "next_song",
                      start |-> IF op = "next_song" THEN playlist ELSE <<>>]
                ELSE IF batch.n = 1 /\ batch.advances /\ op = "next_song"
                THEN [batch EXCEPT !.total = @ + 1, !.n = 2]
                ELSE [total |-> batch.total + 1, n |-> 3,
                      advances |-> FALSE, start |-> <<>>]
    /\ UNCHANGED <<audio_files, songs, playlist, started, last, round, streamer>>

\* Another request has run the DELETE of generate_new_playlist and has not
\* committed yet: it holds the write lock.
Generating(r) == \E q \in Clients \ {r} : req[q].pc = "insert"

\* current_playing = ...filter(is_playing == True).first(), and
\* now_playing_entry of get_current_playlist.
ReadCurrent(r) ==
    /\ req[r].pc = "current"
    /\ \E c \in First(Playing(playlist)) :
         req' = [req EXCEPT ![r] =
                   IF req[r].op = "play_next" /\ c = 0
                   THEN Idle
                   ELSE IF req[r].op = "playlist"
                   THEN [@ EXCEPT !.during = Generating(r),
                                  !.pc = IF c # 0 THEN "respond"
                                         ELSE "generate"]
                   ELSE [@ EXCEPT !.cur = c, !.sess = Load(@, c),
                                  !.pc = IF req[r].op = "play_next"
                                         THEN "target" ELSE "next"]]
    /\ UNCHANGED <<audio_files, songs, playlist, started, last, round, batch,
                   streamer>>

\* next_song_entry = ...filter(play_order == next_order).first()
ReadNext(r) ==
    /\ req[r].pc = "next"
    /\ \E n \in First(AtOrder(playlist, NextOrder(req[r].sess, req[r].cur))) :
         req' = [req EXCEPT ![r] =
                   [@ EXCEPT !.entry = n, !.sess = Load(@, n),
                             !.pc = IF n # 0 THEN "commit" ELSE "generate"]]
    /\ UNCHANGED <<audio_files, songs, playlist, started, last, round, batch,
                   streamer>>

\* The DELETE of generate_new_playlist committing at once (a connection in
\* autocommit mode).
GenerateDeleteAutocommit(r) ==
    /\ req[r].pc = "generate"
    /\ ~Generating(r)
    /\ playlist' = <<>>
    /\ req' = [req EXCEPT ![r] =
                 [@ EXCEPT !.cur = 0, !.sess = <<>>, !.pc = "insert"]]
    /\ UNCHANGED <<audio_files, songs, started, last, round, batch, streamer>>

\* generate_new_playlist(db), db.query(PlaylistEntry).delete(): the bulk
\* DELETE opens the transaction and drops the Session's objects; the rows
\* are gone for this connection only.
GenerateDelete(r) ==
    /\ req[r].pc = "generate"
    /\ ~Generating(r)
    /\ req' = [req EXCEPT ![r] =
                 [@ EXCEPT !.cur = 0, !.sess = <<>>, !.pc = "insert"]]
    /\ UNCHANGED <<audio_files, songs, playlist, started, last, round, batch,
                   streamer>>

\* generate_new_playlist(db) from db.query(Song).all() to db.commit(): the
\* deletion and the new entries become the committed table together.
GenerateInsert(r) ==
    /\ req[r].pc = "insert"
    /\ \E np \in GenerateNewPlaylist(songs) : playlist' = np
    /\ req' = [req EXCEPT ![r] =
                 [@ EXCEPT !.pc = IF req[r].op \in {"playlist", "playlist_txt"}
                                  THEN "again" ELSE "first"]]
    /\ UNCHANGED <<audio_files, songs, started, last, round, batch, streamer>>

\* playlist_entries of get_playlist_text: every row, in play_order.
ReadEntries(r) ==
    /\ req[r].pc = "entries"
    /\ req' = [req EXCEPT ![r] =
                 [@ EXCEPT !.during = Generating(r),
                           !.pc = IF Len(playlist) # 0 THEN "respond"
                                  ELSE "generate"]]
    /\ UNCHANGED <<audio_files, songs, playlist, started, last, round, batch,
                   streamer>>

\* The query a GET handler repeats after its generate_new_playlist;
\* get_current_playlist answers 404 when it still finds no current entry.
ReadAgain(r) ==
    /\ req[r].pc = "again"
    /\ \E c \in First(Playing(playlist)) :
         req' = [req EXCEPT ![r] =
                   IF req[r].op = "playlist" /\ c = 0
                   THEN Idle
                   ELSE [@ EXCEPT !.pc = "respond"]]
    /\ UNCHANGED <<audio_files, songs, playlist, started, last, round, batch,
                   streamer>>

\* The rest of a GET handler: the upcoming entries and the songs of the
\* entries are read and the response is sent; nothing is written.
Respond(r) ==
    /\ req[r].pc = "respond"
    /\ req' = [req EXCEPT ![r] = Idle]
    /\ UNCHANGED <<audio_files, songs, playlist, started, last, round, batch,
                   streamer>>

\* ...filter(play_order == 0).first() after the generation; skip_song
\* answers here, advance_to_next_song goes on to its commit.
ReadFirst(r) ==
    /\ req[r].pc = "first"
    /\ \E n \in First(AtOrder(playlist, 0)) :
         req' = [req EXCEPT ![r] =
                   IF req[r].op = "skip" \/ n = 0
                   THEN Idle
                   ELSE [@ EXCEPT !.entry = n, !.sess = Load(@, n),
                                  !.pc = "commit"]]
    /\ UNCHANGED <<audio_files, songs, playlist, started, last, round, batch,
                   streamer>>

\* target_song_entry = ...filter(song_id == song_id).first()
ReadTarget(r) ==
    /\ req[r].pc = "target"
    /\ \E t \in First(WithSong(playlist, req[r].arg)) :
         req' = [req EXCEPT ![r] =
                   IF t = 0
                   THEN Idle
                   ELSE [@ EXCEPT !.entry = t, !.sess = Load(@, t),
                                  !.pc = "spot"]]
    /\ UNCHANGED <<audio_files, songs, playlist, started, last, round, batch,
                   streamer>>

\* entry_at_next_spot = ...filter(play_order == next_order).first()
ReadSpot(r) ==
    /\ req[r].pc = "spot"
    /\ req[r].sess[req[r].cur].play_order + 1 <= MaxOrder
    /\ \E e \in First(AtOrder(playlist,
                              req[r].sess[req[r].cur].play_order + 1)) :
         req' = [req EXCEPT ![r] =
                   [@ EXCEPT !.spot = e, !.sess = Load(@, e),
                             !.pc = "commit"]]
    /\ UNCHANGED <<audio_files, songs, playlist, started, last, round, batch,
                   streamer>>

\* The assignments of the handler, then db.commit(), which waits for the
\* write lock.
Commit(r) ==
    /\ req[r].pc = "commit"
    /\ ~Generating(r)
    /\ LET q == req[r]
       IN playlist' =
            IF q.op = "next_song"
            THEN Flush(playlist, q.sess,
                       AdvanceRows(q.sess, q.cur, q.entry), {q.cur})
            ELSE Flush(playlist, q.sess,
                       QueueRows(q.sess, q.cur, q.entry, q.spot), {})
    /\ req' = [req EXCEPT ![r] = Idle]
    /\ UNCHANGED <<audio_files, songs, started, last, round, batch, streamer>>

\* The service starts once, before it serves.
Boot == ~started /\ OnStartup /\ UNCHANGED clients

NextConc ==
    \/ Boot
    \/ \E r \in Clients :
         \/ Begin(r, "next_song", 0)
         \/ Begin(r, "skip", 0)
         \/ \E song_id \in 1..MaxSongs : Begin(r, "play_next", song_id)
         \/ ReadCurrent(r)
         \/ ReadNext(r)
         \/ GenerateDelete(r)
         \/ GenerateInsert(r)
         \/ ReadFirst(r)
         \/ ReadTarget(r)
         \/ ReadSpot(r)
         \/ Commit(r)

ConcSpec == Init /\ [][NextConc]_vars

-----------------------------------------------------------------------------
(* GET requests racing the requests that regenerate (RaceSpec).            *)

NextRace ==
    \/ Boot
    \/ \E r \in Clients :
         \/ Begin(r, "next_song", 0)
         \/ Begin(r, "skip", 0)
         \/ Begin(r, "playlist", 0)
         \/ Begin(r, "playlist_txt", 0)
         \/ ReadCurrent(r)
         \/ ReadNext(r)
         \/ GenerateDelete(r)
         \/ GenerateInsert(r)
         \/ ReadFirst(r)
         \/ ReadEntries(r)
         \/ ReadAgain(r)
         \/ Respond(r)
         \/ Commit(r)

InitRace == Init /\ Len(audio_files) <= MaxTracks

RaceSpec == InitRace /\ [][NextRace]_vars

-----------------------------------------------------------------------------
(* The player process (streamer.py) as the only client of the service      *)
(* (StreamSpec).  An HTTP request of the player runs the whole handler; a  *)
(* request can also fail on the way (requests.RequestException).  A HEAD   *)
(* probe and an ffmpeg run end as the network and the file let them.       *)
(* random.shuffle followed by "for song in playlist" visits the valid      *)
(* entries in an arbitrary order: the next one is any of those left.       *)

\* What the player's own steps leave alone.
service == <<audio_files, songs, playlist, started, last>>

others == <<round, req, batch>>

Range(f) == {f[i] : i \in DOMAIN f}

\* The start of an iteration of "while True" in stream_continuously.
NewCycle(st) ==
    [st EXCEPT !.pc = "fetch", !.all_songs = <<>>, !.polls = 0,
               !.valid = {}, !.left = {}, !.playing = 0, !.on_air = NoSong]

\* get_all_songs has returned lst to create_shuffled_playlist.
Fetched(st, lst) ==
    IF Len(lst) = 0
    THEN [st EXCEPT !.pc = "sleep", !.all_songs = <<>>, !.polls = 0]
    ELSE [st EXCEPT !.pc = "validate", !.all_songs = lst, !.polls = 0]

\* The fallback loop after one more round.
Polled(st, lst) ==
    IF st.polls + 1 = PollRounds
    THEN Fetched(st, lst)
    ELSE [st EXCEPT !.pc = "poll_next", !.all_songs = lst,
                    !.polls = @ + 1]

\* supervisor starts the program: main.
Main ==
    /\ streamer.pc = "off"
    /\ streamer' = [streamer EXCEPT !.pc = "wait"]
    /\ UNCHANGED <<service, others>>

\* wait_for_api looping "while retries <= max_retries".
WaitForApiOneMore ==
    /\ streamer.pc = "wait"
    /\ streamer.retries <= MaxRetries
    /\ streamer' =
         IF started THEN [streamer EXCEPT !.pc = "fetch", !.retries = 0]
         ELSE [streamer EXCEPT
                 !.retries = @ + 1,
                 !.pc = IF streamer.retries + 1 <= MaxRetries
                        THEN "wait" ELSE "exited"]
    /\ UNCHANGED <<service, others>>

\* wait_for_api: one probe of GET /health. The connection is refused until
\* the service has started.
WaitForApi ==
    /\ streamer.pc = "wait"
    /\ streamer.retries < MaxRetries
    /\ streamer' =
         IF started THEN [streamer EXCEPT !.pc = "fetch", !.retries = 0]
         ELSE [streamer EXCEPT
                 !.retries = @ + 1,
                 !.pc = IF streamer.retries + 1 < MaxRetries
                        THEN "wait" ELSE "exited"]
    /\ UNCHANGED <<service, others>>

\* get_all_songs: GET /songs, or the except branch when it fails.
GetAllSongs ==
    /\ streamer.pc = "fetch"
    /\ LET st == [streamer EXCEPT !.exit = <<>>]
       IN \/ streamer' = Fetched(st, AllSongs(songs))
          \/ streamer' = [st EXCEPT !.pc = "fallback"]
    /\ UNCHANGED <<service, others>>

\* The fallback of get_all_songs: GET /playlist, now_playing and upcoming.
FallbackPlaylist ==
    /\ streamer.pc = "fallback"
    /\ \/ /\ GetCurrentPlaylist
          /\ streamer' =
               IF last'.status = 200
               THEN [streamer EXCEPT !.pc = "poll_next",
                                     !.all_songs = <<last'.song>> \o last'.body]
               ELSE Fetched(streamer, <<>>)
       \/ /\ streamer' = Fetched(streamer, <<>>)
          /\ UNCHANGED service
    /\ UNCHANGED others

\* The fallback's requests.post(f"{API_URL}/next_song"); an exception
\* breaks the loop.
PollNext ==
    /\ streamer.pc = "poll_next"
    /\ \/ /\ AdvanceToNextSong
          /\ LET st == [streamer EXCEPT
                          !.advances = IF @ \in {0, 1} THEN @ + 1 ELSE @]
             IN streamer' = IF last'.status = 200
                            THEN [st EXCEPT !.pc = "poll_get"]
                            ELSE Polled(st, st.all_songs)
       \/ /\ streamer' = Fetched(streamer, streamer.all_songs)
          /\ UNCHANGED service
    /\ UNCHANGED others

\* The fallback's requests.get(f"{API_URL}/playlist").json() and append.
PollGet ==
    /\ streamer.pc = "poll_get"
    /\ \/ /\ GetCurrentPlaylist
          /\ streamer' =
               Polled(streamer,
                      IF /\ last'.status = 200
                         /\ last'.song \notin Range(streamer.all_songs)
                      THEN Append(streamer.all_songs, last'.song)
                      ELSE streamer.all_songs)
       \/ /\ streamer' = Fetched(streamer, streamer.all_songs)
          /\ UNCHANGED service
    /\ UNCHANGED others

\* create_shuffled_playlist: validate_song_url on every entry of all_songs;
\* ok is the set of entries whose HEAD request answered 200.
CreateShuffledPlaylist ==
    /\ streamer.pc = "validate"
    /\ \E ok \in SUBSET (DOMAIN streamer.all_songs) :
         streamer' = IF ok = {}
                     THEN [streamer EXCEPT !.pc = "sleep", !.valid = {}]
                     ELSE [streamer EXCEPT !.pc = "pick", !.valid = ok,
                                           !.left = ok]
    /\ UNCHANGED <<service, others>>

\* "return" in place of "continue" after time.sleep(10).
SleepThenReturn ==
    /\ streamer.pc = "sleep"
    /\ streamer' = [streamer EXCEPT !.pc = "exited"]
    /\ UNCHANGED <<service, others>>

\* time.sleep(10); continue
Sleep ==
    /\ streamer.pc = "sleep"
    /\ streamer' = NewCycle(streamer)
    /\ UNCHANGED <<service, others>>

\* for song in playlist: stream_song_seamlessly(song) up to subprocess.Popen.
StartFfmpeg ==
    /\ streamer.pc = "pick"
    /\ \E k \in streamer.left :
         streamer' = [streamer EXCEPT !.pc = "ffmpeg", !.playing = k,
                                      !.on_air = streamer.all_songs[k],
                                      !.left = @ \ {k}, !.advances = 0,
                                      !.exit = <<>>,
                                      !.running = IF @ < 2 THEN @ + 1 ELSE @]
    /\ UNCHANGED <<service, others>>

\* stream_song_seamlessly taking every non-zero exit for a failure.
StreamResultStrict(returncode, marker) == returncode = 0

\* The return value of stream_song_seamlessly; marker: "pipe:1: End of file"
\* is in the stderr output.
StreamResult(returncode, marker) == ~(returncode # 0 /\ ~marker)

\* How ffmpeg can end: its return code, and whether its stderr output has
\* the marker (read only when the return code is not 0).
FfmpegExits == {<<0, FALSE>>, <<1, TRUE>>, <<1, FALSE>>}

\* stream_song_seamlessly going on without process.wait(): ffmpeg is still
\* running and its outcome is taken as given.
FfmpegNoWait ==
    /\ streamer.pc = "ffmpeg"
    /\ \E exit \in FfmpegExits :
         LET st == [streamer EXCEPT !.exit = exit]
         IN streamer' = IF StreamResult(exit[1], exit[2]) \/ st.left = {}
                        THEN NewCycle(st)
                        ELSE [st EXCEPT !.pc = "pick", !.playing = 0,
                                        !.on_air = NoSong]
    /\ UNCHANGED <<service, others>>

\* ffmpeg ends, process.wait() returns with its return code and stderr
\* output, and stream_song_seamlessly returns to the for loop of
\* stream_continuously: break on success, continue with the next song on
\* failure.
FfmpegExit ==
    /\ streamer.pc = "ffmpeg"
    /\ \E exit \in FfmpegExits :
         LET st == [streamer EXCEPT !.exit = exit, !.running = @ - 1]
         IN streamer' = IF StreamResult(exit[1], exit[2]) \/ st.left = {}
                        THEN NewCycle(st)
                        ELSE [st EXCEPT !.pc = "pick", !.playing = 0,
                                        !.on_air = NoSong]
    /\ UNCHANGED <<service, others>>

NextStream ==
    \/ Boot
    \/ Main
    \/ WaitForApi
    \/ GetAllSongs
    \/ FallbackPlaylist
    \/ PollNext
    \/ PollGet
    \/ CreateShuffledPlaylist
    \/ Sleep
    \/ StartFfmpeg
    \/ FfmpegExit

InitStream == Init /\ Len(audio_files) <= MaxTracks

StreamSpec == InitStream /\ [][NextStream]_vars

\* One step of the player process: the statement it is at has run.
PlayerStep ==
    \/ Main
    \/ WaitForApi
    \/ GetAllSongs
    \/ FallbackPlaylist
    \/ PollNext
    \/ PollGet
    \/ CreateShuffledPlaylist
    \/ Sleep
    \/ StartFfmpeg
    \/ FfmpegExit

InitLive == Init /\ Len(audio_files) <= MaxLiveTracks

\* The player process when every call it waits on returns (an HTTP request
\* with its answer or an exception, time.sleep, process.wait): the Python
\* interpreter then runs the next statement, so the player always takes its
\* next step.
LiveStreamSpec ==
    InitLive /\ [][NextStream]_vars /\ WF_vars(PlayerStep)

-----------------------------------------------------------------------------
(* Properties of the handlers called one request at a time (Spec).          *)

\* The row marked current when there is exactly one, 0 otherwise.
CurrentOf(pl) == IF Cardinality(Playing(pl)) = 1
                 THEN CHOOSE i \in Playing(pl) : TRUE ELSE 0

Orders(pl) == {pl[i].play_order : i \in Ids(pl)}

\* C1: with the requests served one at a time, at most one playlist entry
\* has is_playing = true in every reachable state.
AtMostOneCurrent == Cardinality(Playing(playlist)) <= 1

\* An advance has moved the marker from a played entry to its successor.
AdvanceMovedMarker ==
    /\ last.op = "next_song" /\ last.regens = 0 /\ last.found.cur # 0
    /\ playlist[last.found.cur].played_at # <<>>
    /\ ~playlist[last.found.cur].is_playing
    /\ Playing(playlist) = {last.found.entry}

\* C4: right after generate_new_playlist on a catalog of N > 0 tracks the
\* playlist has N entries, one per track, their play_order values are
\* exactly 0..N-1, and the entry at play_order 0 is the one marked current.
GenerateCoversCatalog ==
    (last.regens >= 1 /\ Len(songs) > 0) =>
        /\ Len(playlist) = Len(songs)
        /\ \A s \in 1..Len(songs) : Cardinality(WithSong(playlist, s)) = 1
        /\ Orders(playlist) = 0..(Len(songs) - 1)
        /\ \A n \in Orders(playlist) : Cardinality(AtOrder(playlist, n)) = 1
        /\ Playing(playlist) = AtOrder(playlist, 0)

\* A skip has regenerated the playlist of the largest catalog.
SkipRegenerated ==
    /\ last.op = "skip" /\ last.regens = 1 /\ Len(songs) = MaxSongs
    /\ Len(playlist) = Len(songs)

\* C5: in every reachable state the play_order values of the playlist are
\* exactly 0..N-1 for its N entries.
ContiguousPositions == Orders(playlist) = 0..(Len(playlist) - 1)

\* What a POST /next_song step does when an entry is current, by whether an
\* entry is at the current position + 1.
AdvanceStep ==
    (last'.op = "next_song" /\ CurrentOf(playlist) # 0) =>
        LET c == CurrentOf(playlist)
            succ == AtOrder(playlist, playlist[c].play_order + 1)
        IN IF succ = {}
           THEN /\ last'.regens = 1
                /\ Cardinality(Playing(playlist')) = 1
                /\ Playing(playlist') = AtOrder(playlist', 0)
                /\ Orders(playlist') = 0..(Len(songs) - 1)
                /\ \A i \in Ids(playlist') : playlist'[i].played_at = <<>>
           ELSE /\ last'.regens = 0
                /\ Playing(playlist') = succ
                /\ Ids(playlist') = Ids(playlist)
                /\ \A i \in Ids(playlist) :
                     /\ playlist'[i].play_order = playlist[i].play_order
                     /\ playlist'[i].song_id = playlist[i].song_id

\* C6: an advance made while no entry is at the current position + 1 runs
\* exactly one regeneration and leaves the entry at position 0 of the new
\* playlist as the only current one; an advance made while an entry is at
\* the current position + 1 runs none and makes that entry the current one.
AdvanceRegeneratesOnlyAtEnd == [][AdvanceStep]_vars

\* An advance found a current entry and none after it, and regenerated a
\* playlist of several entries.
AdvancedPastLast ==
    /\ last.op = "next_song" /\ last.status = 200 /\ last.regens = 1
    /\ last.found.cur # 0 /\ Len(playlist) > 1

\* What a successful POST /play-next step does when an entry is at the
\* current position + 1 and the target is another entry.
QueueStep ==
    LET c == CurrentOf(playlist)
        spot == AtOrder(playlist, playlist[c].play_order + 1)
        tgt == WithSong(playlist, last'.arg)
    IN (/\ last'.op = "play_next" /\ last'.status = 200
        /\ c # 0 /\ spot # {} /\ tgt # {} /\ tgt # spot) =>
           /\ Ids(playlist') = Ids(playlist)
           /\ \A t \in tgt :
                playlist'[t].play_order = playlist[c].play_order + 1
           /\ \A e \in spot : \A t \in tgt :
                playlist'[e].play_order = playlist[t].play_order
           /\ \A i \in Ids(playlist) \ (tgt \cup spot) :
                playlist'[i].play_order = playlist[i].play_order
           /\ \A i \in Ids(playlist) :
                /\ playlist'[i].is_playing = playlist[i].is_playing
                /\ playlist'[i].played_at = playlist[i].played_at
                /\ playlist'[i].song_id = playlist[i].song_id

\* C9: play-next with the current entry at P, an entry E at P+1 and the
\* target at Q # P+1 puts the target at P+1 and E at Q, changes no other
\* position and leaves the current marker on the entry that had it.
QueueNextSwaps == [][QueueStep]_vars

\* A play-next has exchanged a target that was neither current nor next
\* with the entry that was next.
QueueSwapped ==
    /\ last.op = "play_next" /\ last.status = 200
    /\ last.found.spot # 0 /\ last.found.entry # last.found.spot
    /\ last.found.entry # last.found.cur
    /\ playlist[last.found.entry].play_order =
         playlist[last.found.cur].play_order + 1
    /\ playlist[last.found.spot].play_order >
         playlist[last.found.entry].play_order

\* A POST /next_song step taken right after a successful POST /play-next.
QueuedIsNextStep ==
    (last.op = "play_next" /\ last.status = 200 /\ last'.op = "next_song") =>
        /\ CurrentOf(playlist') # 0
        /\ playlist'[CurrentOf(playlist')].song_id = last.arg

\* C10: the advance that directly follows a successful play-next of a track
\* makes that track the current one.
QueuedTrackPlaysNext == [][QueuedIsNextStep]_vars

\* What a successful POST /play-next step changes when its target is already
\* at the current position + 1, or when the step before it was a successful
\* POST /play-next of the same track.
QueueAgainStep ==
    LET c == CurrentOf(playlist)
        already == /\ c # 0
                   /\ \E i \in Ids(playlist) :
                        /\ playlist[i].song_id = last'.arg
                        /\ playlist[i].play_order = playlist[c].play_order + 1
        repeated == /\ last.op = "play_next" /\ last.status = 200
                    /\ last.arg = last'.arg
    IN (last'.op = "play_next" /\ last'.status = 200
        /\ (already \/ repeated)) => playlist' = playlist

\* C11: a play-next whose target is already at the current position + 1, and
\* a play-next that directly repeats a successful play-next of the same
\* track, leave every entry's position, current flag and played-at as they
\* were.
QueueNextIdempotent == [][QueueAgainStep]_vars

\* C15: POST /skip regenerates whatever the state before, leaves the entry
\* at position 0 of the new playlist as the current one and returns its
\* track; the restart of the streamer is requested only once the new
\* playlist is committed, and a restart that fails leaves the answer a
\* success and the new playlist in place.
SkipAlwaysRegenerates ==
    last.op = "skip" =>
        /\ last.regens = 1
        /\ Len(playlist) = Len(songs)
        /\ Orders(playlist) = 0..(Len(songs) - 1)
        /\ \A i \in Ids(playlist) :
             /\ playlist[i].played_at = <<>>
             /\ playlist[i].is_playing <=> playlist[i].play_order = 0
        /\ IF Len(songs) = 0
           THEN last.status = 404 /\ last.signal = "none"
           ELSE /\ last.status = 200
                /\ last.signal \in {"sent", "failed"}
                /\ CurrentOf(playlist) # 0
                /\ playlist[CurrentOf(playlist)].song_id = last.song.id

\* A skip whose restart command failed has answered with the track at
\* position 0 of a new playlist of the largest catalog.
SkipSurvivedFailedRestart ==
    /\ last.op = "skip" /\ last.signal = "failed" /\ last.status = 200
    /\ Len(playlist) = MaxSongs

\* A POST /skip step on a catalog of two or more tracks.
SkipStep ==
    (/\ last'.op = "skip" /\ Len(songs) >= 2
     /\ CurrentOf(playlist) # 0 /\ CurrentOf(playlist') # 0) =>
        playlist'[CurrentOf(playlist')].song_id #
            playlist[CurrentOf(playlist)].song_id

\* C16: for a catalog of at least two tracks, the track that is current
\* after a POST /skip is never the track that was current before it.
SkipLeavesCurrentTrack == [][SkipStep]_vars

-----------------------------------------------------------------------------
(* Properties of the handlers on a playlist without current entry          *)
(* (SpecLost).                                                             *)

HasCurrent(pl) == \E i \in Ids(pl) : pl[i].is_playing

HasTrack(pl, s) == \E i \in Ids(pl) : pl[i].song_id = s

\* What a POST /play-next step answers and leaves when no entry is current
\* or no entry is of the target track.
QueueNotFoundStep ==
    (/\ last'.op = "play_next"
     /\ ~HasCurrent(playlist) \/ ~HasTrack(playlist, last'.arg)) =>
        /\ last'.status = 404
        /\ playlist' = playlist
        /\ songs' = songs

\* C12: POST /play-next/{id} answers 404 when no entry is marked current or
\* the target track has no playlist entry, and leaves the store (positions,
\* current flags, played-at of every entry) exactly as it was.
QueueNotFoundKeepsStore == [][QueueNotFoundStep]_vars

\* A play-next of a track that is not in a playlist of several entries, one
\* of them current, was refused.
QueueRefusedUnknownTrack ==
    /\ last.op = "play_next" /\ last.status = 404
    /\ last.found.cur # 0 /\ last.found.entry = 0
    /\ Len(playlist) > 1

PlaylistRecoverStep ==
    last'.op = "playlist" =>
        /\ IF HasCurrent(playlist)
           THEN last'.regens = 0 /\ last'.status = 200
           ELSE /\ last'.regens = 1
                /\ last'.status = 404 <=> Len(songs) = 0
                /\ last'.status = 404 => ~HasCurrent(playlist')
        /\ Len(songs) > 0 =>
              /\ last'.status = 200
              /\ last'.song # NoSong
              /\ \E i \in Ids(playlist') :
                   /\ playlist'[i].is_playing
                   /\ playlist'[i].song_id = last'.song.id

\* C14: GET /playlist with no entry marked current regenerates once and
\* looks again; it answers 404 only when there is still no current entry
\* (empty catalog), and with a non-empty catalog its now_playing is never
\* null.
PlaylistRecoversOnce == [][PlaylistRecoverStep]_vars

\* GET /playlist found no current entry in a playlist of several entries,
\* regenerated and answered with the new current track.
PlaylistRecovered ==
    /\ last.op = "playlist" /\ last.status = 200 /\ last.regens = 1
    /\ Len(playlist) > 1 /\ last.song # NoSong

-----------------------------------------------------------------------------
(* Properties of the alternating client (SpecRound) and of the view        *)
(* (SpecView).                                                             *)

IsPrefix(a, b) == Len(a) <= Len(b) /\ \A i \in 1..Len(a) : a[i] = b[i]

\* C7: from a generation on, the now_playing tracks read by GET /playlist
\* between the advances are, element by element, the URLs of GET
\* /playlist.txt in order; no track comes twice, and the advance that
\* regenerates is the one after the last entry was read.
RoundTripOrder ==
    /\ round.txt # <<>> => IsPrefix(round.seen, round.txt)
    /\ last.op = "playlist_txt" => IsPrefix(round.seen, last.body)
    /\ \A i, j \in 1..Len(round.seen) :
         round.seen[i] = round.seen[j] => i = j
    /\ Len(round.seen) <= Len(songs)
    /\ round.full

\* The client has read every track of a generation of the largest catalog,
\* and a /playlist.txt body equal to what it read.
RoundComplete ==
    /\ Len(songs) = MaxSongs
    /\ Len(round.seen) = Len(songs)
    /\ round.txt = round.seen

\* The entries after the current one.
Forward(pl, c) == {i \in Ids(pl) : pl[i].play_order > pl[c].play_order}

\* The entries of S that have exactly k - 1 entries of S before them.
Nth(pl, S, k) ==
    {i \in S :
       Cardinality({j \in S : pl[j].play_order < pl[i].play_order}) = k - 1}

\* C8: upcoming of GET /playlist is the entries after the current one in
\* ascending position, at most 5, followed, when these are fewer than 5, by
\* the entries from the lowest position upward until 5 are collected or
\* every entry was appended once; it never has more than 5 entries, and
\* has exactly 5 for three tracks of which two are after the current one.
UpcomingWraps ==
    (last.op = "playlist" /\ last.status = 200) =>
        LET c == CurrentOf(playlist)
            f == Cardinality(Forward(playlist, c))
            n == Len(playlist)
            b == last.body
        IN /\ c # 0
           /\ last.song.id = playlist[c].song_id
           /\ Len(b) <= 5
           /\ Len(b) = IF f >= 5 \/ f + n >= 5 THEN 5 ELSE f + n
           /\ \A k \in 1..Len(b) :
                IF k <= f
                THEN \E i \in Nth(playlist, Forward(playlist, c), k) :
                        b[k].id = playlist[i].song_id
                ELSE \E i \in Nth(playlist, Ids(playlist), k - f) :
                        b[k].id = playlist[i].song_id
           /\ (n = 3 /\ f = 2) => Len(b) = 5

\* GET /playlist answered for three tracks, two after the current one.
ViewWrapped ==
    /\ last.op = "playlist" /\ last.status = 200
    /\ Len(playlist) = 3
    /\ Cardinality(Forward(playlist, CurrentOf(playlist))) = 2
    /\ Len(last.body) = 5
    /\ last.body[3].id = last.song.id

\* C23: with the requests served one at a time (startup, advance, skip,
\* play-next, the reads), no two playlist entries have the same play_order.
UniquePositions ==
    \A i, j \in Ids(playlist) :
      playlist[i].play_order = playlist[j].play_order => i = j

\* A play-next found no entry at the next spot and moved its target
\* there: the positions have a gap.
QueuedWithGap ==
    /\ last.op = "play_next" /\ last.status = 200
    /\ last.found.spot = 0
    /\ Len(playlist) >= 2
    /\ Orders(playlist) # 0..(Len(playlist) - 1)

\* The playlist holds exactly one entry per row of songs.
OnePerTrack ==
    /\ Len(playlist) = Len(songs)
    /\ \A s \in 1..Len(songs) : Cardinality(WithSong(playlist, s)) = 1

\* C24: once the service has started no operation adds, changes or deletes
\* a row of songs (advance, skip, play-next, the reads, a further startup),
\* and in every state reached with the requests served one at a time the
\* playlist holds exactly one entry per track of the catalog.
CatalogFixedAndCovered ==
    /\ []OnePerTrack
    /\ [][started => songs' = songs]_vars

\* A play-next has moved entries of the full catalog after an advance.
QueuedAfterAdvance ==
    /\ last.op = "play_next" /\ last.status = 200
    /\ Len(songs) = MaxSongs
    /\ \E i \in Ids(playlist) : playlist[i].played_at # <<>>

\* The entries of pl at a play_order greater than that of entry c.
Ahead(pl, c) == {i \in Ids(pl) : pl[i].play_order > pl[c].play_order}

\* A successful play-next keeps every entry that was ahead of the current
\* one ahead of it.
QueueKeepsAheadStep ==
    (last'.op = "play_next" /\ last'.status = 200) =>
        Ahead(playlist, last'.found.cur)
            \subseteq Ahead(playlist', last'.found.cur)

\* C27 as stated: after every successful POST /play-next/{id} each entry
\* whose play_order was greater than the current entry's before the call
\* still has a play_order greater than the current entry's.
QueueKeepsUpcoming == [][QueueKeepsAheadStep]_vars

\* What a successful play-next does to the entries ahead of the current
\* one: d is the entry it displaces from the next spot (0: none).
QueueDisplacesStep ==
    (last'.op = "play_next" /\ last'.status = 200) =>
        LET c == last'.found.cur
            t == last'.found.entry
            d == IF last'.found.spot # t THEN last'.found.spot ELSE 0
        IN /\ Ahead(playlist, c) \ {d} \subseteq Ahead(playlist', c)
           /\ d # 0 =>
                 /\ playlist'[d].play_order = playlist[t].play_order
                 /\ d \in Ahead(playlist', c) <=> t \in Ahead(playlist, c)

\* C27: after every successful POST /play-next/{id} each entry that was
\* ahead of the current one is still ahead of it, except the entry
\* displaced from the next spot: it takes the target's old play_order and
\* is still ahead exactly when the target was ahead of the current entry.
QueueDropsOnlyDisplaced == [][QueueDisplacesStep]_vars

\* A play-next for a track already played has sent the next entry behind
\* the current one, in the full catalog.
NextEntrySentBack ==
    /\ last.op = "play_next" /\ last.status = 200
    /\ last.found.spot \notin {0, last.found.entry}
    /\ last.found.entry # last.found.cur
    /\ last.found.spot \notin Ahead(playlist, last.found.cur)
    /\ Len(playlist) = MaxSongs

\* What a run of the startup handler does to the two tables.
StartupStep ==
    last'.op = "startup" =>
        /\ songs' = IF Len(songs) = 0 THEN audio_files ELSE songs
        /\ last'.regens = IF Len(playlist) = 0 THEN 1 ELSE 0
        /\ Len(playlist) # 0 => playlist' = playlist
        /\ Len(songs') # 0 => Len(playlist') # 0

\* C28: the startup handler fills the songs table only when it is empty and
\* generates a playlist only when the playlist table has no row; on a table
\* that has rows it leaves every play_order, is_playing and played_at as
\* they were, and after a startup with a non-empty catalog the playlist has
\* entries.
StartupKeepsPlaylist == [][StartupStep]_vars

\* The service has been started again on a playlist that was advanced and
\* rearranged: the played entry and the gap in the positions are still
\* there.
RestartedOnPlayedList ==
    /\ last.op = "startup" /\ last.regens = 0
    /\ \E i \in Ids(playlist) : playlist[i].played_at # <<>>
    /\ Orders(playlist) # 0..(Len(playlist) - 1)

\* What a step of one of the GET handlers does to the playlist.
ReadStep ==
    last'.op \in {"playlist", "playlist_txt", "songs", "health"} =>
        /\ songs' = songs
        /\ last'.regens =
              IF \/ last'.op = "playlist_txt" /\ Len(playlist) = 0
                 \/ last'.op = "playlist" /\ Playing(playlist) = {}
              THEN 1 ELSE 0
        /\ IF last'.regens = 0
           THEN playlist' = playlist
           ELSE playlist' \in GenerateNewPlaylist(songs)

\* C26: GET /playlist.txt regenerates only when the playlist has no entry
\* and GET /playlist only when no entry is marked current; in every other
\* state GET /playlist, GET /playlist.txt, GET /songs and GET /health leave
\* every entry's play_order, is_playing and played_at as they were.
ReadsRegenerateOnlyToRecover == [][ReadStep]_vars

\* GET /playlist.txt has answered from a playlist that has entries and no
\* current one, without regenerating.
TextReadWithoutCurrent ==
    /\ last.op = "playlist_txt" /\ last.regens = 0
    /\ Len(playlist) > 0
    /\ Playing(playlist) = {}

-----------------------------------------------------------------------------
(* Properties of the player process (StreamSpec).                          *)

\* A step that starts ffmpeg after it has been started before.
NextTrackStep ==
    (/\ streamer.pc = "pick" /\ streamer'.pc = "ffmpeg"
     /\ streamer.advances # -1) => streamer.advances = 1

\* C17: between the end of a track (streamed, or failed in a tolerated way)
\* and the start of the next one the player calls POST /next_song exactly
\* once.
AdvanceOncePerTrack == [][NextTrackStep]_vars

\* C18: the track given to ffmpeg is the track of the service's current
\* entry.
OnAirIsCurrentTrack ==
    streamer.pc = "ffmpeg" =>
        \E i \in Ids(playlist) :
          /\ playlist[i].is_playing
          /\ playlist[i].song_id = streamer.on_air.id

\* The entries of all_songs whose pre-check failed in this cycle.
FailedEntries(st) == DOMAIN st.all_songs \ st.valid

\* C19: ffmpeg is never started for a track whose pre-check (HEAD) failed in
\* the current cycle.
FailedTrackNotStreamed ==
    streamer.pc = "ffmpeg" =>
        \A k \in FailedEntries(streamer) :
          streamer.all_songs[k].file_path # streamer.on_air.file_path

\* What the step that ends an ffmpeg run does to the loop.
FfmpegExitStep ==
    /\ streamer'.pc = "exited" => streamer.pc \in {"wait", "exited"}
    /\ streamer.pc = "ffmpeg" =>
          /\ streamer'.pc \in {"pick", "fetch"}
          /\ streamer'.exit # <<>>
          /\ LET returncode == streamer'.exit[1]
                 marker == streamer'.exit[2]
             IN /\ (returncode # 0 /\ ~marker) =>
                      IF streamer.left # {}
                      THEN /\ streamer'.pc = "pick"
                           /\ streamer'.left = streamer.left
                           /\ streamer'.valid = streamer.valid
                      ELSE streamer'.pc = "fetch"
                /\ (returncode = 0 \/ marker) =>
                      /\ streamer'.pc = "fetch"
                      /\ streamer'.left = {}

\* C20: an ffmpeg run that ends with a non-zero return code and without
\* the end-of-input marker never ends the loop, which goes on with the next
\* song of its list or with a new cycle; a non-zero return code with the
\* marker counts as success: the loop breaks to a new cycle as after a
\* return code of 0.
TranscoderFailureTolerated == [][FfmpegExitStep]_vars

\* After an abnormal exit of ffmpeg the loop is about to start another song
\* of its list.
ContinuedAfterFailure ==
    /\ streamer.pc = "pick"
    /\ streamer.exit = <<1, FALSE>>
    /\ streamer.left # {}

\* wait_for_api has returned True: the player is in stream_continuously.
InLoop(st) == st.pc \notin {"off", "wait", "exited"}

\* The player process never ends by itself.
PlayerNeverExits == streamer.pc # "exited"

\* C21 as stated: once the player process has been started it never stops
\* by itself, whatever the health probes, the HEAD probes and ffmpeg return.
\* (The process does stop from wait_for_api; see LoopNeverStops.)
ProcessNeverStops == streamer.pc # "off" => PlayerNeverExits

\* C21: once a health probe has answered 200 the player never stops by
\* itself: no step of the loop ends the process, and the loop is always
\* eventually back at the start of a cycle (get_all_songs), whatever the
\* service answers, the HEAD probes and ffmpeg return.
LoopNeverStops ==
    /\ [][InLoop(streamer) => InLoop(streamer')]_vars
    /\ InLoop(streamer) ~> (streamer.pc = "fetch")

\* The loop has come back to the start of a cycle after an ffmpeg run that
\* failed with no other song left in the list.
BackAfterLastFailure ==
    /\ streamer.pc = "fetch"
    /\ streamer.exit = <<1, FALSE>>

\* What a step of the player in wait_for_api does. retries is the number
\* of probes made without a 200 so far.
HealthWaitStep ==
    /\ (~InLoop(streamer) /\ InLoop(streamer')) =>
          /\ streamer.pc = "wait" /\ streamer'.pc = "fetch"
          /\ started
          /\ streamer.retries + 1 <= 12
    /\ (streamer.pc = "wait" /\ streamer' # streamer) =>
          /\ streamer.retries < 12
          /\ ~started => streamer'.retries = streamer.retries + 1
          /\ streamer'.pc = "exited" <=> (~started /\ streamer'.retries = 12)
    /\ streamer.pc = "exited" => streamer'.pc = "exited"

\* C29: the player does not fetch or stream before a probe of GET /health
\* has answered 200; wait_for_api makes at most 12 probes and gives up (the
\* process ends) after 12 probes without a 200.
WaitsForHealthBounded ==
    /\ [](InLoop(streamer) => started)
    /\ [][HealthWaitStep]_vars

\* wait_for_api has returned False after its 12th probe.
GaveUpAfterTwelve ==
    /\ streamer.pc = "exited"
    /\ streamer.retries = 12
    /\ ~started

\* C30: at most one ffmpeg process of the player runs at any time, and
\* while one runs the loop is in process.wait(): it starts no other ffmpeg
\* and does not fetch, validate or shuffle for the next cycle before the
\* process has ended.
OneTranscoderAtATime ==
    /\ streamer.running <= 1
    /\ streamer.running = 1 <=> streamer.pc = "ffmpeg"

\* The second ffmpeg of a cycle runs: the first one failed and has ended.
SecondTranscoderRuns ==
    /\ streamer.pc = "ffmpeg"
    /\ streamer.running = 1
    /\ Cardinality(streamer.valid \ streamer.left) = 2

\* What the player does next when it has found no song to stream and the
\* catalog of the running service is empty.
EmptyCatalogStep ==
    (/\ started /\ Len(songs) = 0
     /\ streamer.pc = "sleep") => streamer'.pc = "exited"

-----------------------------------------------------------------------------
(* Properties of concurrent requests (ConcSpec).                           *)

\* C2: whatever the interleaving of the reads, generations and commits of
\* concurrent next_song, skip and play-next requests, no two playlist
\* entries have is_playing = true.
NoTwoCurrentConcurrently ==
    \A i, j \in Ids(playlist) :
      (playlist[i].is_playing /\ playlist[j].is_playing) => i = j

\* C3: two POST /next_song requests that overlap, begun with the current
\* entry at P and entries at P+1 and P+2, end as one after the other would:
\* the entry at P+2 is the current one and no position has changed.
ConcurrentAdvancesSerialize ==
    LET s == batch.start
        c == CurrentOf(s)
    IN (/\ AllIdle /\ batch.n = 2 /\ batch.advances
        /\ c # 0
        /\ AtOrder(s, s[c].play_order + 1) # {}
        /\ AtOrder(s, s[c].play_order + 2) # {}) =>
           /\ Playing(playlist) = AtOrder(s, s[c].play_order + 2)
           /\ \A i \in Ids(s) : playlist[i].play_order = s[i].play_order

-----------------------------------------------------------------------------
(* Properties of GET requests racing a generation (RaceSpec).              *)

\* A GET /playlist.txt that found no entry and regenerates.
Regenerating(r) ==
    /\ req[r].op = "playlist_txt"
    /\ req[r].pc \in {"generate", "insert", "again"}

\* C25 as stated: a GET /playlist.txt that reads while another request is
\* between the deletion and the insertion of generate_new_playlist, with a
\* non-empty catalog, can read zero entries and so start a second
\* regeneration.
ReaderCanSeeEmpty ==
    \A r \in Clients :
      (req[r].pc = "entries" /\ Generating(r) /\ Len(songs) > 0) =>
          ENABLED (ReadEntries(r) /\ Regenerating(r)')

\* C25: no caller racing a generation observes an empty playlist of a
\* non-empty catalog: whatever the interleaving, the table the queries of
\* the other requests read has one entry per catalog track before and after
\* the commit of generate_new_playlist, and no GET /playlist.txt finds it
\* empty and regenerates.
NoTransientEmpty ==
    (started /\ Len(songs) > 0) =>
        /\ Len(playlist) = Len(songs)
        /\ \A r \in Clients : ~Regenerating(r)

\* A GET /playlist.txt has read its entries while another request was
\* between the DELETE and the commit of its generation, and still is.
ReadDuringGeneration ==
    \E r \in Clients :
      /\ req[r].op = "playlist_txt" /\ req[r].pc = "respond"
      /\ req[r].during /\ Generating(r)
      /\ Len(songs) > 0

====
